---- MODULE Spec2Model ----
(***************************************************************************)
(* A model of library/eos_switchport.py: the EosAnsibleModule run          *)
(* (construction, validation, connection, flush, update, exit/fail) and    *)
(* the switchport resource functions instance, create, remove, the        *)
(* setters and the validators, against an EOS node whose switchport        *)
(* configuration is the variable device.                                   *)
(*                                                                         *)
(* Python values are encoded as sequences so that any two of them can be   *)
(* compared: None is <<>>, a string is <<content>>.  The content of a mode,*)
(* name or state string is a TLA+ string, of a VLAN id string its number,  *)
(* of a comma list its sequence of items.  An item of a VLAN list is <<n>> *)
(* for "n", <<lo, hi>> for "lo-hi" and <<>> for an empty item (as in       *)
(* "1,,2" or "1,"); an item of a trunk group list is the rank of the group *)
(* name in lexicographic order.                                            *)
(***************************************************************************)
EXTENDS Integers, Sequences, FiniteSets, TLC

VARIABLES
    pc,          \* position of the run
    opts,        \* check_mode, _debug, _stateful, desired_state
    params,      \* self.params minus meta_args: the declared attributes
    attributes,  \* self._attributes
    instCache,   \* self._instance: <<>> (None) or <<dict>>
    result,      \* self.result
    changeset,   \* keys of the changeset update() has still to iterate
    changes,     \* the local dict changes of update()
    diffed,      \* <<>> or <<the instance dict the changeset was computed against>>
    device,      \* the node's configuration of the interface
    nodeCfg,     \* node._running_config: <<>> or <<what get(name) reads from it>>
    trace,       \* the calls made so far, in order
    output,      \* <<>> while running, then what the caller receives
    cin,         \* canonicalisation runs: the raw argument
    cout         \* canonicalisation runs: the values computed from it

runvars == <<pc, opts, params, attributes, instCache, result, changeset,
             changes, diffed, device, nodeCfg, trace, output>>
canonvars == <<cin, cout>>
vars == <<pc, opts, params, attributes, instCache, result, changeset,
          changes, diffed, device, nodeCfg, trace, output, cin, cout>>

----------------------------------------------------------------------------
(* Bounds *)

\* VLAN ids are 1..MaxVlan
MaxVlan == 2
\* a declared comma list has at most MaxItems items
MaxItems == 2
\* a task declares at most MaxDeclared of the five optional attributes
MaxDeclared == 2
\* and at most MaxLibDeclared in the runs of the class as a library
MaxLibDeclared == 1

VlanIds == 1..MaxVlan

----------------------------------------------------------------------------
(* Python values *)

None == <<>>
Str(c) == <<c>>
\* "not value" for a value that is None or a string
Falsy(v) == v = None \/ v = Str(<<>>)
Get(d, k) == IF k \in DOMAIN d THEN d[k] ELSE None
EmptyDict == [k \in {} |-> None]

SeqsUpTo(S, n) == UNION {[1..m -> S] : m \in 0..n}
Range(s) == {s[i] : i \in DOMAIN s}
Ascending(a, b) == a < b
Count(s, x) == Cardinality({i \in DOMAIN s : s[i] = x})

----------------------------------------------------------------------------
(* expand_range, sort_vlans and the validators *)

\* one item of the list: "lo-hi" gives lo..hi, "n" gives n
ExpandItem(item) ==
    IF Len(item) = 2
    THEN [i \in 1..(item[2] - item[1] + 1) |-> item[1] + i - 1]
    ELSE item

RECURSIVE expand_range(_)
expand_range(items) ==
    IF items = <<>> THEN <<>>
    ELSE ExpandItem(Head(items)) \o expand_range(Tail(items))

\* int('') raises ValueError on an empty item
ExpandRaises(items) == \E i \in DOMAIN items : Len(items[i]) = 0

\* ','.join of a list of numbers: the comma list with one item per number
Join(nums) == [i \in DOMAIN nums |-> <<nums[i]>>]

\* arg.split(',') of an expanded list, as numbers; ''.split(',') is [''],
\* on which int() raises
SortVlansRaises(items) == items = <<>> \/ ExpandRaises(items)

sort_vlans(items) ==
    Join(SortSeq([i \in DOMAIN items |-> items[i][1]], Ascending))

validate_trunk_allowed_vlans(value) ==
    IF Falsy(value) THEN None
    ELSE Str(sort_vlans(Join(expand_range(value[1]))))

\* the validator raises ValueError: an empty item, or nothing left to sort
ValidateVlansRaises(value) ==
    /\ ~Falsy(value)
    /\ \/ ExpandRaises(value[1])
       \/ SortVlansRaises(Join(expand_range(value[1])))

validate_trunk_groups(value) ==
    IF Falsy(value) THEN None
    ELSE Str(SortSeq(value[1], Ascending))

\* self.func('validate_%s' % key): the validators the module defines
HasValidator(key) == key \in {"trunk_groups", "trunk_allowed_vlans"}
\* mutant: every key is taken to have a setter
HasSetterAny(key) == TRUE

\* self.func('set_%s' % key): the setters the module defines
HasSetter(key) ==
    key \in {"mode", "access_vlan", "trunk_native_vlan",
             "trunk_allowed_vlans", "trunk_groups"}

ValidatorRaises(key, value) ==
    key = "trunk_allowed_vlans" /\ ValidateVlansRaises(value)

ValidateOne(key, value) ==
    IF key = "trunk_allowed_vlans" THEN validate_trunk_allowed_vlans(value)
    ELSE IF key = "trunk_groups" THEN validate_trunk_groups(value)
    ELSE value

\* EosAnsibleModule.validate: every attribute with a validator is replaced
validate(attrs) ==
    [k \in DOMAIN attrs |->
        IF HasValidator(k) THEN ValidateOne(k, attrs[k]) ELSE attrs[k]]

ValidateRaises(attrs) ==
    \E k \in DOMAIN attrs : HasValidator(k) /\ ValidatorRaises(k, attrs[k])

----------------------------------------------------------------------------
(* The node: the interface's configuration and what the API reports of it *)

\* the VLAN ids and trunk group names the node's configuration draws on
NodeVlanIds == {1, 2}
NodeGroupIds == {1, 2}

ResourceName == Str("Ethernet1")
Modes == {"access", "trunk"}

\* an interface that is no switchport
AbsentDevice ==
    [present |-> FALSE, mode |-> "access", access_vlan |-> 1,
     trunk_native_vlan |-> 1, vlans |-> NodeVlanIds, groups |-> {}]
\* what "switchport" alone leaves: the EOS defaults (DOCUMENTATION, options)
DefaultDevice == [AbsentDevice EXCEPT !.present = TRUE]

DeviceStates ==
    {AbsentDevice} \cup
    [present : {TRUE}, mode : Modes, access_vlan : NodeVlanIds,
     trunk_native_vlan : NodeVlanIds,
     vlans : SUBSET NodeVlanIds \ {{}}, groups : SUBSET NodeGroupIds]

\* the ways the running-config can spell the VLAN set S: every id once, in
\* any order, singly or inside a range
ReportItems(S) ==
    {<<n>> : n \in S} \cup
    {r \in {<<lo, hi>> : lo \in S, hi \in S} : r[1] < r[2]}
VlanReports(S) ==
    {s \in SeqsUpTo(ReportItems(S), Cardinality(S)) :
        /\ Len(expand_range(s)) = Cardinality(S)
        /\ Range(expand_range(s)) = S}
\* the orders in which the running-config can list the trunk groups G
GroupReports(G) == {s \in [1..Cardinality(G) -> G] : Range(s) = G}

\* api('switchports').get(name) on a running-config: None, or the dict
Reports(dev) ==
    IF ~dev.present THEN {None}
    ELSE {Str([mode |-> Str(dev.mode),
               access_vlan |-> Str(dev.access_vlan),
               trunk_native_vlan |-> Str(dev.trunk_native_vlan),
               trunk_allowed_vlans |-> v,
               trunk_groups |-> g]) :
            v \in VlanReports(dev.vlans), g \in GroupReports(dev.groups)}

AllKeys == {"name", "state", "mode", "access_vlan", "trunk_native_vlan",
            "trunk_allowed_vlans", "trunk_groups"}
OptionalKeys == AllKeys \ {"name", "state"}

\* instance(module): the resolved instance of a reported configuration
instance(name, raw) ==
    IF raw = None
    THEN [k \in {"name", "state"} |->
            IF k = "name" THEN name ELSE Str("absent")]
    ELSE [k \in AllKeys |->
            CASE k = "name" -> name
              [] k = "state" -> Str("present")
              [] k = "mode" -> raw[1].mode
              [] k = "access_vlan" -> raw[1].access_vlan
              [] k = "trunk_native_vlan" -> raw[1].trunk_native_vlan
              [] k = "trunk_allowed_vlans" ->
                    Str(sort_vlans(Join(expand_range(raw[1].trunk_allowed_vlans))))
              [] k = "trunk_groups" -> Str(raw[1].trunk_groups)]

\* the node after set_<key>(name, value); a command on an interface that is
\* no switchport leaves it no switchport
ApplySetter(dev, key, value) ==
    IF ~dev.present THEN dev
    ELSE CASE key = "mode" -> [dev EXCEPT !.mode = value[1]]
           [] key = "access_vlan" -> [dev EXCEPT !.access_vlan = value[1]]
           [] key = "trunk_native_vlan" ->
                 [dev EXCEPT !.trunk_native_vlan = value[1]]
           [] key = "trunk_allowed_vlans" ->
                 [dev EXCEPT !.vlans = Range(expand_range(value[1]))]
           [] key = "trunk_groups" -> [dev EXCEPT !.groups = Range(value[1])]

----------------------------------------------------------------------------
(* The run *)

Event(op, remote, ok) == [op |-> op, remote |-> remote, ok |-> ok, val |-> <<>>]
QueryEvent(remote, ok, val) ==
    [op |-> "query", remote |-> remote, ok |-> ok, val |-> val]
\* set_<key>(module): the value it reads from module.attributes and sends
SetEvent(key, value, ok) ==
    [op |-> "set_" \o key, remote |-> TRUE, ok |-> ok, val |-> value]

\* self.desired_state
DesiredState == IF opts.stateful THEN params["state"] ELSE None

\* mutant: the result gathered so far goes out with the message
FailOutputWithResult(msg) ==
    Str([kind |-> "fail_json", msg |-> msg, result |-> Str(result)])

\* fail(): fail_json(msg=msg) ends the process with the message alone
FailOutput(msg) == Str([kind |-> "fail_json", msg |-> msg, result |-> <<>>])
\* exit(): exit_json(**self.result)
ExitOutput(res) == Str([kind |-> "exit_json", msg |-> "", result |-> Str(res)])
\* an exception nothing catches ends the process with a traceback
RaiseOutput(msg) == Str([kind |-> "traceback", msg |-> msg, result |-> <<>>])

\* mutant: every declared item is taken for changed
ChangesetOfAll(attrs, inst) == DOMAIN attrs
\* mutant: the keys are compared, the values are not
ChangesetOfKeys(attrs, inst) == {k \in DOMAIN attrs : k \notin DOMAIN inst}

\* viewitems() - viewitems(): the items of attrs that are no item of inst,
\* named by their keys
ChangesetOf(attrs, inst) ==
    {k \in DOMAIN attrs : ~(k \in DOMAIN inst /\ inst[k] = attrs[k])}

\* update(): an entry is recorded, and its setter run, when its value is set
Recorded(value) == value /= None

\* mutant: the dict is replaced by the entries given
DictUpdateReplace(d, e) == e

\* dict.update
DictUpdate(d, e) ==
    [k \in DOMAIN d \cup DOMAIN e |-> IF k \in DOMAIN e THEN e[k] ELSE d[k]]

\* mutant: a validator's exception is swallowed
ConstructNextSwallow(attrs) == "connect1"

\* __init__: after validate() the connection is made; a validator's
\* exception is caught nowhere
ConstructNext(attrs) == IF ValidateRaises(attrs) THEN "raised" ELSE "connect1"

\* mutant: the failure is noted and not raised
ConnectErrorIgnored == "connect2"

\* EosConnection.connect: 'show version' failed, ValueError is raised
ConnectErrorNext == "raised"

\* mutant: the desired state is not looked at
FlushBranchPresent(desired, stateful, istate) ==
    IF istate = Str("absent") THEN "create" ELSE "diff"
\* mutant: desired absent removes whatever the instance's state
FlushBranchRemove(desired, stateful, istate) ==
    IF desired = Str("present") \/ ~stateful
    THEN IF istate = Str("absent") THEN "create" ELSE "diff"
    ELSE "remove"

\* mutant: a state other than present and absent is passed over
FlushBranchNoNamed(desired, stateful, istate) ==
    IF desired = Str("present") \/ ~stateful
    THEN IF istate = Str("absent") THEN "create" ELSE "diff"
    ELSE IF desired = Str("absent") /\ stateful
    THEN IF istate = Str("present") THEN "remove" ELSE "final"
    ELSE "final"

\* flush: which branch is taken for the desired state and the instance's
FlushBranch(desired, stateful, istate) ==
    IF desired = Str("present") \/ ~stateful
    THEN IF istate = Str("absent") THEN "create" ELSE "diff"
    ELSE IF desired = Str("absent") /\ stateful
    THEN IF istate = Str("present") THEN "remove" ELSE "final"
    ELSE IF stateful /\ desired /= istate THEN "named" ELSE "final"

\* mutant: fail() returns to its caller
FailGoesOn(msg) == pc' = pc /\ output' = output

\* fail(): fail_json ends the process
Fail(msg) == pc' = "failed" /\ output' = FailOutput(msg)

\* the node's configuration is set before the run and first seen by the
\* first query: it is chosen there
FirstQuery == \A i \in DOMAIN trace : trace[i].op /= "query"

\* __init__ up to validate(): the result, the attribute map, the validators
Construct ==
    /\ pc = "init"
    /\ result' = [result EXCEPT !.debug =
                    IF opts.debug THEN {"pyeapi_version", "stateful", "params"}
                    ELSE {}]
    /\ attributes' = IF ValidateRaises(params) THEN params ELSE validate(params)
    /\ pc' = ConstructNext(params)
    /\ output' = IF ConstructNext(params) = "raised"
                 THEN RaiseOutput("ValueError") ELSE output
    /\ UNCHANGED <<opts, params, instCache, changeset, changes, diffed,
                   device, nodeCfg, trace, cin, cout>>

\* EosConnection(**self.params).connect(): a ValueError is caught nowhere
EosConnectionConnect ==
    /\ pc = "connect1"
    /\ \/ /\ pc' = "connect2"
          /\ trace' = Append(trace, Event("connect", TRUE, TRUE))
          /\ UNCHANGED output
       \/ /\ pc' = "raised"
          /\ output' = RaiseOutput("Connection must define a transport")
          /\ UNCHANGED trace
       \/ /\ pc' = ConnectErrorNext
          /\ output' = IF ConnectErrorNext = "raised"
                       THEN RaiseOutput("unable to connect") ELSE output
          /\ trace' = Append(trace, Event("connect", TRUE, FALSE))
    /\ UNCHANGED <<opts, params, attributes, instCache, result, changeset,
                   changes, diffed, device, nodeCfg, cin, cout>>

\* self.connect(): every failure goes through fail()
Connect ==
    /\ pc = "connect2"
    /\ \/ /\ pc' = "flush"
          /\ trace' = Append(trace, Event("connect", TRUE, TRUE))
          /\ result' = [result EXCEPT !.debug =
                          IF opts.debug
                          THEN @ \cup {"eos_version", "eos_model", "node"}
                          ELSE @]
          /\ UNCHANGED output
       \/ /\ \E msg \in {"Connection name not found",
                         "Connection must define a transport"} : Fail(msg)
          /\ UNCHANGED <<trace, result>>
       \/ /\ Fail("unable to connect")
          /\ trace' = Append(trace, Event("connect", TRUE, FALSE))
          /\ UNCHANGED result
    /\ UNCHANGED <<opts, params, attributes, instCache, changeset,
                   changes, diffed, device, nodeCfg, cin, cout>>

\* mutant: the cached instance is never used
CacheHitNever(cache) == FALSE

\* the instance property: "if self._instance: return self._instance"
CacheHit(cache) == cache /= <<>> /\ DOMAIN cache[1] /= {}

\* the instance property with no cached instance: instance(module) reads the
\* node's running-config, which the node fetches unless it holds one
Instance ==
    /\ pc \in {"flush", "diff", "snapshot"}
    /\ ~CacheHit(instCache)
    /\ \/ \E dev \in (IF FirstQuery THEN DeviceStates ELSE {device}) :
          \E raw \in (IF nodeCfg = <<>> THEN Reports(dev) ELSE {nodeCfg[1]}) :
            /\ device' = dev
            /\ nodeCfg' = Str(raw)
            /\ instCache' = Str(instance(attributes["name"], raw))
            /\ trace' = Append(trace,
                   QueryEvent(nodeCfg = <<>>, TRUE,
                              Str(instance(attributes["name"], raw))))
            /\ UNCHANGED <<pc, output>>
       \/ /\ nodeCfg = <<>>
          /\ Fail("instance[error]")
          /\ trace' = Append(trace, QueryEvent(TRUE, FALSE, <<>>))
          /\ UNCHANGED <<device, nodeCfg, instCache>>
    /\ UNCHANGED <<opts, params, attributes, result, changeset, changes,
                   diffed, cin, cout>>

\* flush: the branch on the desired state and the instance's state
FlushDispatch ==
    /\ pc = "flush"
    /\ instCache /= <<>>
    /\ pc' = FlushBranch(DesiredState, opts.stateful, Get(instCache[1], "state"))
    /\ UNCHANGED <<opts, params, attributes, instCache, result, changeset,
                   changes, diffed, device, nodeCfg, trace, output, cin, cout>>

\* mutant: the cached instance survives create()
KeptCache(cache) == cache

\* refresh() after create(): self._instance = None
RefreshedCache(cache) == <<>>
\* self._node._running_config = None after create()
FlushedRunningConfig(cfg) == <<>>

\* flush, desired present and instance absent: create(), changed, refresh()
Create ==
    /\ pc = "create"
    /\ \/ /\ opts.check_mode
          /\ trace' = trace \o <<Event("create", FALSE, TRUE),
                                 Event("refresh", FALSE, TRUE)>>
          /\ UNCHANGED device
       \/ /\ ~opts.check_mode
          /\ trace' = trace \o <<Event("create", TRUE, TRUE),
                                 Event("refresh", FALSE, TRUE)>>
          /\ \/ device' = DefaultDevice
             \/ UNCHANGED device      \* the node did not take the command
    /\ result' = [result EXCEPT !.changed = TRUE]
    /\ instCache' = RefreshedCache(instCache)
    /\ nodeCfg' = FlushedRunningConfig(nodeCfg)
    /\ pc' = "diff"
    /\ UNCHANGED <<opts, params, attributes, changeset, changes, diffed,
                   output, cin, cout>>

\* mutant: a create that raised is attempted again
CreateFailsRetry ==
    /\ pc = "create"
    /\ ~opts.check_mode
    /\ trace' = Append(trace, Event("create", TRUE, FALSE))
    /\ UNCHANGED <<pc, output, opts, params, attributes, instCache, result,
                   changeset, changes, diffed, device, nodeCfg, cin, cout>>

\* create() raises: invoke() hands the exception to fail()
CreateFails ==
    /\ pc = "create"
    /\ ~opts.check_mode
    /\ trace' = Append(trace, Event("create", TRUE, FALSE))
    /\ Fail("create failed")
    /\ UNCHANGED <<opts, params, attributes, instCache, result, changeset,
                   changes, diffed, device, nodeCfg, cin, cout>>

\* flush: the changeset of the attributes against the instance
ComputeChangeset ==
    /\ pc = "diff"
    /\ instCache /= <<>>
    /\ changeset' = ChangesetOf(attributes, instCache[1])
    /\ diffed' = instCache
    /\ changes' = EmptyDict
    /\ result' = [result EXCEPT !.debug =
                    IF opts.debug
                    THEN @ \cup {"desired_state", "current_state"} ELSE @]
    /\ pc' = "update"
    /\ UNCHANGED <<opts, params, attributes, instCache, device, nodeCfg,
                   trace, output, cin, cout>>

\* the entries of the changeset update() acts on; the loop passes over the
\* others, in whatever place the set's iteration order gives them, with no
\* effect
Pending == {k \in changeset : Recorded(attributes[k])}

\* update(): the next entry it acts on, in the set's iteration order
UpdateStep ==
    /\ pc = "update"
    /\ \E k \in Pending :
        /\ changeset' = changeset \ {k}
        /\ changes' = DictUpdate(changes, k :> attributes[k])
        /\ IF HasSetter(k) /\ ~opts.check_mode
           THEN \/ /\ trace' = Append(trace, SetEvent(k, attributes[k], TRUE))
                   /\ device' = ApplySetter(device, k, attributes[k])
                   /\ UNCHANGED <<pc, output>>
                \/ /\ trace' = Append(trace, SetEvent(k, attributes[k], FALSE))
                   /\ Fail("set failed")
                   /\ UNCHANGED device
           ELSE UNCHANGED <<trace, device, pc, output>>
    /\ UNCHANGED <<opts, params, attributes, instCache, result, diffed,
                   nodeCfg, cin, cout>>

\* flush after update(): the changes are recorded and merged into _attributes
UpdateReturn ==
    /\ pc = "update"
    /\ Pending = {}
    /\ result' = IF DOMAIN changes /= {}
                 THEN [result EXCEPT !.changes = changes, !.changed = TRUE]
                 ELSE result
    /\ attributes' = DictUpdate(attributes, changes)
    /\ pc' = "final"
    /\ UNCHANGED <<opts, params, instCache, changeset, changes, diffed,
                   device, nodeCfg, trace, output, cin, cout>>

\* mutant: remove() leaves the changed flag as it was
RemoveUnflagged ==
    /\ pc = "remove"
    /\ \/ /\ opts.check_mode
          /\ trace' = Append(trace, Event("remove", FALSE, TRUE))
          /\ UNCHANGED device
       \/ /\ ~opts.check_mode
          /\ trace' = Append(trace, Event("remove", TRUE, TRUE))
          /\ device' = AbsentDevice
    /\ pc' = "final"
    /\ UNCHANGED <<opts, params, attributes, instCache, result, changeset,
                   changes, diffed, nodeCfg, output, cin, cout>>

\* flush, desired absent and instance present: remove(), changed
Remove ==
    /\ pc = "remove"
    /\ \/ /\ opts.check_mode
          /\ trace' = Append(trace, Event("remove", FALSE, TRUE))
          /\ UNCHANGED device
       \/ /\ ~opts.check_mode
          /\ trace' = Append(trace, Event("remove", TRUE, TRUE))
          /\ \/ device' = AbsentDevice
             \/ UNCHANGED device      \* the node did not take the command
    /\ result' = [result EXCEPT !.changed = TRUE]
    /\ pc' = "final"
    /\ UNCHANGED <<opts, params, attributes, instCache, changeset, changes,
                   diffed, nodeCfg, output, cin, cout>>

RemoveFails ==
    /\ pc = "remove"
    /\ ~opts.check_mode
    /\ trace' = Append(trace, Event("remove", TRUE, FALSE))
    /\ Fail("remove failed")
    /\ UNCHANGED <<opts, params, attributes, instCache, result, changeset,
                   changes, diffed, device, nodeCfg, cin, cout>>

\* flush, a state added with add_state: the function of that name is invoked
\* (its effect on the node is its own); with none defined invoke() calls None
NamedState ==
    /\ pc = "named"
    /\ \/ /\ DesiredState[1] \in opts.registered
          /\ trace' = Append(trace, Event("state", TRUE, TRUE))
          /\ result' = [result EXCEPT !.changed = TRUE]
          /\ pc' = "final"
          /\ UNCHANGED output
       \/ /\ DesiredState[1] \in opts.registered
          /\ trace' = Append(trace, Event("state", TRUE, FALSE))
          /\ Fail("state failed")
          /\ UNCHANGED result
       \/ /\ DesiredState[1] \notin opts.registered
          /\ Fail("'NoneType' object is not callable")
          /\ UNCHANGED <<trace, result>>
    /\ UNCHANGED <<opts, params, attributes, instCache, changeset, changes,
                   diffed, device, nodeCfg, cin, cout>>

\* flush: the closing refresh()
FinalRefresh ==
    /\ pc = "final"
    /\ instCache' = <<>>
    /\ trace' = Append(trace, Event("refresh", FALSE, TRUE))
    /\ pc' = IF opts.debug THEN "snapshot" ELSE "exit"
    /\ UNCHANGED <<opts, params, attributes, result, changeset, changes,
                   diffed, device, nodeCfg, output, cin, cout>>

\* flush with debug: result['instance'] = self.instance
Snapshot ==
    /\ pc = "snapshot"
    /\ instCache /= <<>>
    /\ result' = [result EXCEPT !.instance = instCache]
    /\ pc' = "exit"
    /\ UNCHANGED <<opts, params, attributes, instCache, changeset, changes,
                   diffed, device, nodeCfg, trace, output, cin, cout>>

\* flush(True): exit()
Exit ==
    /\ pc = "exit"
    /\ output' = ExitOutput(result)
    /\ pc' = "done"
    /\ UNCHANGED <<opts, params, attributes, instCache, result, changeset,
                   changes, diffed, device, nodeCfg, trace, cin, cout>>

----------------------------------------------------------------------------
(* The inputs of a run *)

\* what a task declares
DeclaredModes == {None} \cup {Str(m) : m \in Modes}
DeclaredVlanIds == {None, Str(2)}
DeclaredVlanLists ==
    {None, Str(<<>>),
     Str(<< <<2>>, <<1>> >>),     \* "2,1"
     Str(<< <<1, 2>> >>),         \* "1-2"
     Str(<< <<1>>, <<1>> >>),     \* "1,1"
     Str(<< <<1>>, <<>> >>),      \* "1,"
     Str(<< <<2>> >>)}            \* "2"
DeclaredGroupLists ==
    {None, Str(<<>>),
     Str(<<2, 1>>),               \* "b,a"
     Str(<<1>>)}                  \* "a"

NoDeclared(p) == Cardinality({k \in OptionalKeys : p[k] /= None})

\* map_argument_spec of a stateful module: the argument_spec and state
StatefulParams(states, n) ==
    {p \in [name : {ResourceName}, state : {Str(x) : x \in states},
            mode : DeclaredModes, access_vlan : DeclaredVlanIds,
            trunk_native_vlan : DeclaredVlanIds,
            trunk_allowed_vlans : DeclaredVlanLists,
            trunk_groups : DeclaredGroupLists] :
        NoDeclared(p) <= n}

\* map_argument_spec of a module constructed with stateful=False
StatelessParams(n) ==
    {p \in [name : {ResourceName},
            mode : DeclaredModes, access_vlan : DeclaredVlanIds,
            trunk_native_vlan : DeclaredVlanIds,
            trunk_allowed_vlans : DeclaredVlanLists,
            trunk_groups : DeclaredGroupLists] :
        NoDeclared(p) <= n}

InitRun ==
    /\ pc = "init"
    /\ attributes = EmptyDict
    /\ instCache = <<>>
    /\ result = [changed |-> FALSE, changes |-> EmptyDict,
                 instance |-> <<>>, debug |-> {}]
    /\ changeset = {}
    /\ changes = EmptyDict
    /\ diffed = <<>>
    /\ device = AbsentDevice
    /\ nodeCfg = <<>>
    /\ trace = <<>>
    /\ output = <<>>
    /\ cin = <<>>
    /\ cout = <<>>

\* main(): EosAnsibleModule(argument_spec, supports_check_mode=True), the
\* state one of ['present', 'absent'], then flush(True)
Init ==
    /\ InitRun
    /\ opts \in [check_mode : BOOLEAN, debug : BOOLEAN, stateful : {TRUE},
                 registered : {{}}]
    /\ params \in StatefulParams({"present", "absent"}, MaxDeclared)

Next ==
    \/ Construct
    \/ EosConnectionConnect
    \/ Connect
    \/ Instance
    \/ FlushDispatch
    \/ Create
    \/ CreateFails
    \/ ComputeChangeset
    \/ UpdateStep
    \/ UpdateReturn
    \/ Remove
    \/ RemoveFails
    \/ FinalRefresh
    \/ Snapshot
    \/ Exit

Spec == Init /\ [][Next]_vars

----------------------------------------------------------------------------
(* The class as a library: EosAnsibleModule(stateful=False), and states      *)
(* added with add_state, with or without a function of the state's name     *)

AddedStates == {"default"}

InitLib ==
    /\ InitRun
    /\ \/ /\ opts \in [check_mode : BOOLEAN, debug : BOOLEAN,
                        stateful : {TRUE}, registered : SUBSET AddedStates]
          /\ params \in StatefulParams({"present", "absent"} \cup AddedStates,
                                       MaxLibDeclared)
       \/ /\ opts \in [check_mode : BOOLEAN, debug : BOOLEAN,
                        stateful : {FALSE}, registered : {{}}]
          /\ params \in StatelessParams(MaxLibDeclared)

NextLib == Next \/ NamedState

SpecLib == InitLib /\ [][NextLib]_vars

----------------------------------------------------------------------------
(* Canonicalisation runs: validate_trunk_allowed_vlans on two arguments,    *)
(* then on its own results                                                   *)

\* the items of a well-formed argument: "n" and "lo-hi" with lo <= hi
CanonItems ==
    {<<n>> : n \in VlanIds} \cup
    {r \in {<<lo, hi>> : lo \in VlanIds, hi \in VlanIds} : r[1] <= r[2]}
CanonInputs == SeqsUpTo(CanonItems, MaxItems) \ {<<>>}

InitCanon ==
    /\ pc = "canon"
    /\ opts = [check_mode |-> FALSE, debug |-> FALSE, stateful |-> TRUE,
               registered |-> {}]
    /\ params = EmptyDict
    /\ attributes = EmptyDict
    /\ instCache = <<>>
    /\ result = [changed |-> FALSE, changes |-> EmptyDict,
                 instance |-> <<>>, debug |-> {}]
    /\ changeset = {}
    /\ changes = EmptyDict
    /\ diffed = <<>>
    /\ device = AbsentDevice
    /\ nodeCfg = <<>>
    /\ trace = <<>>
    /\ output = <<>>
    /\ cin \in CanonInputs \X CanonInputs
    /\ cout = <<>>

Canonicalise ==
    /\ pc = "canon"
    /\ cout = <<>>
    /\ cout' = << <<validate_trunk_allowed_vlans(Str(cin[1])),
                   validate_trunk_allowed_vlans(Str(cin[2]))>> >>
    /\ UNCHANGED <<runvars, cin>>

Recanonicalise ==
    /\ pc = "canon"
    /\ Len(cout) = 1
    /\ cout' = Append(cout, <<validate_trunk_allowed_vlans(cout[1][1]),
                              validate_trunk_allowed_vlans(cout[1][2])>>)
    /\ UNCHANGED <<runvars, cin>>

NextCanon == Canonicalise \/ Recanonicalise

SpecCanon == InitCanon /\ [][NextCanon]_vars

----------------------------------------------------------------------------
(* What the claims speak of *)

Ops(names) == {i \in DOMAIN trace : trace[i].op \in names}
SetterOps == {"set_" \o k : k \in OptionalKeys}
MutationOps == {"create", "remove", "state"} \cup SetterOps
Queries == {i \in Ops({"query"}) : trace[i].ok}
Resolved == Queries /= {}
\* the actual state the first query resolved
FirstInstance == trace[CHOOSE i \in Queries : \A j \in Queries : i <= j].val[1]
Finishing == pc \in {"final", "snapshot", "exit", "done"}

\* the actual state equals the desired on every non-null desired attribute
Converged(attrs, inst) ==
    \A k \in DOMAIN attrs : attrs[k] /= None => Get(inst, k) = attrs[k]

\* C1: a run whose resolved actual state equals the desired attributes on
\* every non-null one, state included, makes no create, remove or setter call
\* and leaves changed false and changes empty, up to and including its output
C1_Idempotence ==
    (Resolved /\ opts.stateful /\ Converged(attributes, FirstInstance)) =>
        /\ Ops(MutationOps) = {}
        /\ result.changed = FALSE
        /\ result.changes = EmptyDict
        /\ pc \notin {"create", "remove", "named"}
        /\ pc = "done" =>
            /\ output[1].kind = "exit_json"
            /\ output[1].result[1].changed = FALSE
            /\ output[1].result[1].changes = EmptyDict

\* a converged run has ended, with a VLAN list declared in another spelling
\* than the canonical one and a mode declared
C1_Witness ==
    /\ pc = "done"
    /\ ~opts.check_mode
    /\ Converged(attributes, FirstInstance)
    /\ attributes["state"] = Str("present")
    /\ attributes["trunk_allowed_vlans"] /= None
    /\ attributes["trunk_allowed_vlans"] /= params["trunk_allowed_vlans"]
    /\ attributes["mode"] /= None

\* C2: desired present and resolved actual absent: create is invoked exactly
\* once; once it has returned changed is true, the cached instance is
\* dropped, and the changeset is computed, and every setter run, after a
\* query of the node made after the create
C2_PresentCreation ==
    (/\ Resolved
     /\ DesiredState = Str("present")
     /\ FirstInstance["state"] = Str("absent")
     /\ pc /= "flush") =>
        \/ pc = "create" /\ Ops({"create"}) = {}
        \/ /\ Cardinality(Ops({"create"})) = 1
           /\ \A c \in Ops({"create"}) : trace[c].ok =>
                /\ result.changed = TRUE
                /\ pc = "diff" /\ Cardinality(Queries) = 1 => instCache = <<>>
                /\ diffed /= <<>> =>
                     \E r \in Ops({"refresh"}) : \E q \in Queries :
                        /\ c < r /\ r < q
                        /\ trace[q].remote
                        /\ trace[q].val = diffed
                        /\ \A x \in Ops(SetterOps) : q < x
                /\ Ops(SetterOps) /= {} => diffed /= <<>>

\* a created switchport whose attributes were then set from the fresh state
C2_Witness ==
    /\ pc = "done"
    /\ DesiredState = Str("present")
    /\ FirstInstance["state"] = Str("absent")
    /\ \E c \in Ops({"create"}) : trace[c].remote /\ trace[c].ok
    /\ diffed /= <<>>
    /\ diffed[1]["state"] = Str("present")
    /\ Ops(SetterOps) /= {}

\* C3: desired absent and resolved actual present: remove is invoked exactly
\* once, no setter is, no changeset is computed and changes stays empty; the
\* finished run has changed true
C3_Removal ==
    (/\ Resolved
     /\ DesiredState = Str("absent")
     /\ FirstInstance["state"] = Str("present")
     /\ pc /= "flush") =>
        /\ \/ pc = "remove" /\ Ops({"remove"}) = {}
           \/ Cardinality(Ops({"remove"})) = 1
        /\ Ops(SetterOps \cup {"create"}) = {}
        /\ diffed = <<>> /\ changeset = {} /\ changes = EmptyDict
        /\ result.changes = EmptyDict
        /\ Finishing => result.changed = TRUE
        /\ pc = "done" =>
            /\ output[1].result[1].changed = TRUE
            /\ output[1].result[1].changes = EmptyDict

\* a switchport removed while attributes were declared
C3_Witness ==
    /\ pc = "done"
    /\ DesiredState = Str("absent")
    /\ FirstInstance["state"] = Str("present")
    /\ \E i \in Ops({"remove"}) : trace[i].remote /\ trace[i].ok
    /\ attributes["mode"] /= None
    /\ attributes["mode"] /= FirstInstance["mode"]

\* C4: desired absent and resolved actual absent: no create, remove or
\* setter call, changed false and changes empty
C4_AbsentNoop ==
    (/\ Resolved
     /\ DesiredState = Str("absent")
     /\ FirstInstance["state"] = Str("absent")) =>
        /\ Ops(MutationOps) = {}
        /\ result.changed = FALSE
        /\ result.changes = EmptyDict
        /\ changes = EmptyDict
        /\ pc \notin {"create", "remove", "diff", "update"}
        /\ pc = "done" =>
            /\ output[1].result[1].changed = FALSE
            /\ output[1].result[1].changes = EmptyDict

\* nothing to remove, with attributes declared
C4_Witness ==
    /\ pc = "done"
    /\ DesiredState = Str("absent")
    /\ FirstInstance["state"] = Str("absent")
    /\ attributes["mode"] /= None
    /\ ~opts.check_mode

\* the changes the differencer is to produce
ExpectedChanges(attrs, inst) ==
    [k \in {j \in DOMAIN attrs : attrs[j] /= None /\ attrs[j] /= Get(inst, j)}
        |-> attrs[k]]

\* C5: the changes update() returns are exactly the non-null desired items
\* that differ from the actual state's; while it runs they are a part of
\* them; they are what the result records, and an empty changes map leaves
\* changed as it was
C5_DiffCorrect ==
    diffed /= <<>> =>
        LET want == ExpectedChanges(attributes, diffed[1]) IN
        /\ DOMAIN changes \subseteq DOMAIN want
        /\ \A k \in DOMAIN changes : changes[k] = want[k]
        /\ Finishing =>
            /\ changes = want
            /\ result.changes = want
            /\ \A k \in DOMAIN result.changes : attributes[k] /= None
            /\ DOMAIN want = {} => result.changed = (Ops({"create"}) /= {})
            /\ DOMAIN want /= {} => result.changed = TRUE

\* a mode and an access VLAN were declared, the mode alone differed
C5_Witness ==
    /\ pc = "done"
    /\ diffed /= <<>>
    /\ attributes["mode"] /= None /\ attributes["access_vlan"] /= None
    /\ attributes["trunk_groups"] = None
    /\ diffed[1]["state"] = Str("present")
    /\ diffed[1]["trunk_groups"] /= Str(<<>>)
    /\ DOMAIN result.changes = {"mode"}

\* the two sequences hold the same values the same number of times
SameBag(x, y) ==
    /\ Len(x) = Len(y)
    /\ \A v \in Range(x) \cup Range(y) : Count(x, v) = Count(y, v)
\* the set of VLAN ids a comma list denotes
Denotes(items) == Range(expand_range(items))
\* the ids of S in ascending order
AscendingSeq(S) ==
    CHOOSE q \in [1..Cardinality(S) -> S] :
        \A i \in DOMAIN q : \A j \in DOMAIN q : i < j => q[i] < q[j]

\* C6: two arguments that denote the same set of VLAN ids and differ only in
\* the order and the range compression of their items are mapped to the same
\* string, the ascending fully expanded list of that set, and the validator
\* leaves its own results as they are
C6_Canonical ==
    Len(cout) >= 1 =>
        /\ (/\ Denotes(cin[1]) = Denotes(cin[2])
            /\ SameBag(expand_range(cin[1]), expand_range(cin[2]))) =>
                /\ cout[1][1] = cout[1][2]
                /\ cout[1][1] = Str(Join(AscendingSeq(Denotes(cin[1]))))
        /\ Len(cout) >= 2 => cout[2] = cout[1]

\* what the node reported when the changeset was computed
ReportedAtDiff == nodeCfg[1][1]

\* C7: when the changeset is computed against a present switchport, a
\* declared VLAN list or trunk group list that is the collection the node
\* reports, in whatever order or compression, equals the resolved value and
\* is not in the changeset
C7_ActualNormalised ==
    (/\ pc = "update"
     /\ diffed /= <<>>
     /\ diffed[1]["state"] = Str("present")) =>
        /\ (/\ attributes["trunk_allowed_vlans"] /= None
            /\ SameBag(expand_range(attributes["trunk_allowed_vlans"][1]),
                       expand_range(ReportedAtDiff.trunk_allowed_vlans))) =>
                /\ diffed[1]["trunk_allowed_vlans"] = attributes["trunk_allowed_vlans"]
                /\ "trunk_allowed_vlans" \notin changeset \cup DOMAIN changes
        /\ (/\ attributes["trunk_groups"] /= None
            /\ SameBag(attributes["trunk_groups"][1],
                       ReportedAtDiff.trunk_groups)) =>
                /\ diffed[1]["trunk_groups"] = attributes["trunk_groups"]
                /\ "trunk_groups" \notin changeset \cup DOMAIN changes

\* C8: no call reaches the node before every attribute is validated, and a
\* run whose validator raises ends there, with no call made
C8_ValidateFirst ==
    /\ trace /= <<>> =>
        /\ ~ValidateRaises(params)
        /\ attributes = validate(params)
    /\ (pc /= "init" /\ ValidateRaises(params)) =>
        /\ pc = "raised"
        /\ trace = <<>>
        /\ output /= <<>> /\ output[1].kind = "traceback"

\* a run ended by the validator of the VLAN list
C8_Witness ==
    /\ pc = "raised"
    /\ ValidateRaises(params)
    /\ params["trunk_allowed_vlans"] = Str(<< <<1>>, <<>> >>)
    /\ trace = <<>>

ConnectMessages ==
    {"Connection must define a transport", "Connection name not found",
     "unable to connect"}
ConnectFailed ==
    \/ \E i \in Ops({"connect"}) : ~trace[i].ok
    \/ output /= <<>> /\ output[1].msg \in ConnectMessages

\* C9: a run in which connecting fails has ended in failure, and makes no
\* query, create, remove or setter call
C9_ConnectFatal ==
    ConnectFailed =>
        /\ pc \in {"raised", "failed"}
        /\ output /= <<>>
        /\ output[1].kind \in {"traceback", "fail_json"}
        /\ output[1].result = <<>>
        /\ Ops({"query"} \cup MutationOps) = {}

\* the node answered the first connection and not the second
C9_Witness ==
    /\ pc = "failed"
    /\ Cardinality(Ops({"connect"})) = 2
    /\ \E i \in Ops({"connect"}) : ~trace[i].ok
    /\ output[1].msg = "unable to connect"

\* C10: when the first of two setters has succeeded and the second raises,
\* the result at the failure has changed true and the first attribute's
\* change in changes
C10_PartialRecord ==
    (/\ pc = "failed"
     /\ Cardinality(Ops(SetterOps)) = 2
     /\ \E j \in Ops(SetterOps) : ~trace[j].ok) =>
        \A i \in Ops(SetterOps) : trace[i].ok =>
            \E k \in OptionalKeys :
                /\ trace[i].op = "set_" \o k
                /\ result.changed = TRUE
                /\ k \in DOMAIN result.changes
                /\ result.changes[k] = attributes[k]

\* the attribute the setter called at place i of the trace sets
SetterKey(i) == CHOOSE k \in OptionalKeys : trace[i].op = "set_" \o k
FailedSetters == {i \in Ops(SetterOps) : ~trace[i].ok}

\* C11: a setter that raises is the last call of the run, which has ended in
\* failure through fail(); what the setters before it set is still set on the
\* node
C11_SetterAbort ==
    /\ \A j \in FailedSetters :
        /\ j = Len(trace)
        /\ pc = "failed"
        /\ output /= <<>> /\ output[1].kind = "fail_json"
    /\ \A i \in Ops(SetterOps) :
        trace[i].ok => ApplySetter(device, SetterKey(i), trace[i].val) = device

\* the mode was set, then the second setter raised: the node keeps the mode
C11_Witness ==
    /\ pc = "failed"
    /\ Cardinality(Ops(SetterOps)) = 2
    /\ FailedSetters /= {}
    /\ FirstInstance["state"] = Str("present")
    /\ \E i \in Ops(SetterOps) :
        /\ trace[i].ok
        /\ SetterKey(i) = "mode"
        /\ FirstInstance["mode"] /= trace[i].val
        /\ device.mode = trace[i].val[1]

\* C12: the output of a run that fail() ended is the message and the failure
\* alone: nothing of the result gathered so far (changed, changes, debug,
\* instance) is in it
C12_FailureBare ==
    pc = "failed" =>
        /\ output /= <<>>
        /\ output[1].kind = "fail_json"
        /\ output[1].msg /= ""
        /\ output[1].result = <<>>

\* a failure after the result had changed set and debug entries gathered
C12_Witness ==
    /\ pc = "failed"
    /\ result.changed = TRUE
    /\ result.debug /= {}
    /\ FailedSetters /= {}
    /\ output[1].result = <<>>

\* C13: a module constructed with stateful=False never invokes create or
\* remove, whatever state the instance resolves to
C13_StatelessSkip ==
    ~opts.stateful =>
        /\ pc \notin {"create", "remove"}
        /\ Ops({"create", "remove"}) = {}

\* the desired state is one added with add_state
NamedDesired ==
    opts.stateful /\ DesiredState \notin {Str("present"), Str("absent")}

\* C14: with a desired state other than present and absent, no create, remove
\* or setter is called; when it differs from the actual state and a function
\* of its name is defined, that function is invoked exactly once and changed
\* is true once it has returned; when none is defined the run ends in failure
\* with no call made; when it equals the actual state flush invokes nothing
C14_NamedStates ==
    /\ \A s \in AddedStates : FlushBranch(Str(s), TRUE, Str(s)) = "final"
    /\ (NamedDesired /\ Resolved /\ pc /= "flush") =>
        /\ Ops(MutationOps \ {"state"}) = {}
        /\ pc \notin {"create", "remove", "diff", "update"}
        /\ IF DesiredState /= FirstInstance["state"]
           THEN IF DesiredState[1] \in opts.registered
                THEN \/ /\ pc = "named"
                        /\ Ops({"state"}) = {}
                        /\ result.changed = FALSE
                     \/ /\ Cardinality(Ops({"state"})) = 1
                        /\ \A i \in Ops({"state"}) :
                            IF trace[i].ok
                            THEN result.changed = TRUE /\ Finishing
                            ELSE pc = "failed"
                ELSE /\ Ops({"state"}) = {}
                     /\ result.changed = FALSE
                     /\ pc \in {"named", "failed"}
                     /\ pc = "failed" => output[1].kind = "fail_json"
           ELSE /\ Ops({"state"}) = {}
                /\ result.changed = FALSE
                /\ pc /= "named"

\* the function of an added state was invoked and the run has ended
C14_Witness ==
    /\ pc = "done"
    /\ NamedDesired
    /\ DesiredState[1] \in opts.registered
    /\ \E i \in Ops({"state"}) : trace[i].ok
    /\ output[1].result[1].changed = TRUE

\* an added state with no function of its name: the run has failed
C14_Unregistered ==
    /\ pc = "failed"
    /\ NamedDesired
    /\ DesiredState[1] \notin opts.registered
    /\ Resolved
    /\ output[1].msg = "'NoneType' object is not callable"

LastOf(S) == CHOOSE i \in S : \A j \in S : j <= i

\* C15: between any two queries there is a refresh; a cached instance is the
\* map the last query returned, and no refresh came after that query; the
\* branch of flush and the changeset read the same map from one query when no
\* create came between them, and the changeset and the snapshot are the map
\* of the query of their window
C15_CachedInstance ==
    /\ \A i \in Ops({"query"}) : \A j \in Ops({"query"}) :
        i < j => \E r \in Ops({"refresh"}) : i < r /\ r < j
    /\ instCache /= <<>> =>
        /\ Queries /= {}
        /\ instCache = trace[LastOf(Queries)].val
        /\ \A r \in Ops({"refresh"}) : r < LastOf(Queries)
    /\ (pc \in {"diff", "update"} /\ Ops({"create"}) = {}) =>
        Cardinality(Ops({"query"})) = 1
    /\ (pc = "update" /\ diffed /= <<>>) => diffed = instCache
    /\ result.instance /= <<>> => result.instance = trace[LastOf(Queries)].val

\* a run with debug that created the switchport: three windows, three queries
C15_Witness ==
    /\ pc = "done"
    /\ opts.debug
    /\ Cardinality(Queries) = 3
    /\ Cardinality(Ops({"refresh"})) = 2
    /\ Ops(SetterOps) /= {}

\* the instances the node's present configuration resolves to
ActualNow == {instance(attributes["name"], raw) : raw \in Reports(device)}

\* C16: a run that has exited made its last refresh after its last create,
\* remove or setter call; with debug the instance is resolved again after
\* that refresh and the instance in the outcome is the node's state after
\* the calls; without debug no query follows that refresh
C16_Terminal ==
    pc = "done" =>
        /\ Ops({"refresh"}) /= {}
        /\ \A m \in Ops(MutationOps) : m < LastOf(Ops({"refresh"}))
        /\ IF opts.debug
           THEN /\ \E q \in Queries : LastOf(Ops({"refresh"})) < q
                /\ output[1].result[1].instance /= <<>>
                /\ output[1].result[1].instance[1] \in ActualNow
           ELSE \A q \in Ops({"query"}) : q < LastOf(Ops({"refresh"}))

\* C17: a run ended by a fatal error was ended by fail(): its output is the
\* fail_json message, never the traceback of an exception nothing caught
C17_UniformFatal ==
    (output /= <<>> /\ output[1].kind /= "exit_json") =>
        /\ pc = "failed"
        /\ output[1].kind = "fail_json"

\* C18: create is called at most once, remove at most once, the setter of
\* each attribute at most once, create and remove never both, and a call
\* that failed is the last call of the run, which has ended
C18_NoRetry ==
    /\ Cardinality(Ops({"create"})) <= 1
    /\ Cardinality(Ops({"remove"})) <= 1
    /\ \A k \in OptionalKeys : Cardinality(Ops({"set_" \o k})) <= 1
    /\ Ops({"create"}) = {} \/ Ops({"remove"}) = {}
    /\ \A i \in DOMAIN trace :
        ~trace[i].ok => i = Len(trace) /\ pc \in {"failed", "raised"}

\* the switchport was created, one attribute set, and the next setter raised
C18_Witness ==
    /\ pc = "failed"
    /\ \E i \in Ops({"create"}) : trace[i].remote /\ trace[i].ok
    /\ Cardinality(Ops(SetterOps)) = 2
    /\ ~trace[Len(trace)].ok
    /\ trace[Len(trace)].op \in SetterOps

\* C19: from the end of validate() on, the desired attributes are the
\* validated parameters in every state of the run, and every setter called
\* was given the validated value of its attribute
C19_DesiredImmutable ==
    /\ (pc /= "init" /\ ~ValidateRaises(params)) =>
        attributes = validate(params)
    /\ \A i \in Ops(SetterOps) :
        /\ trace[i].val /= None
        /\ trace[i].val = validate(params)[SetterKey(i)]

\* a run that applied a VLAN list the validator had rewritten, and merged its
\* changes into the attributes
C19_Witness ==
    /\ pc = "done"
    /\ DOMAIN result.changes /= {}
    /\ \E i \in Ops({"set_trunk_allowed_vlans"}) :
        /\ trace[i].ok
        /\ trace[i].val /= params["trunk_allowed_vlans"]
    /\ attributes = validate(params)

\* the entries of the changeset with a value and no setter
Unsettable(attrs, inst) ==
    {k \in DOMAIN attrs :
        ~HasSetter(k) /\ attrs[k] /= None /\ attrs[k] /= Get(inst, k)}

\* C20: no call is made for name or state; an entry of the changeset with a
\* value and no setter does not fail the run, is in the changes update()
\* returns and in the result's, and the result then has changed true
C20_SkipButReport ==
    /\ Ops({"set_" \o k : k \in AllKeys \ OptionalKeys}) = {}
    /\ diffed /= <<>> =>
        LET S == Unsettable(attributes, diffed[1]) IN
        /\ \A k \in S \cap DOMAIN changes : changes[k] = attributes[k]
        /\ (pc = "failed" /\ S /= {}) => ~trace[Len(trace)].ok
        /\ Finishing =>
            /\ S \subseteq DOMAIN result.changes
            /\ S /= {} => result.changed = TRUE
        /\ (pc = "done" /\ S /= {}) =>
            /\ output[1].kind = "exit_json"
            /\ output[1].result[1].changed = TRUE
            /\ \A k \in S : output[1].result[1].changes[k] = attributes[k]

\* the node still reported no switchport after create: state is in the
\* changes beside the mode, whose setter was called
C20_Witness ==
    /\ pc = "done"
    /\ ~opts.check_mode
    /\ diffed /= <<>>
    /\ Unsettable(attributes, diffed[1]) = {"state"}
    /\ DOMAIN output[1].result[1].changes = {"state", "mode"}
    /\ Cardinality(Ops(SetterOps)) = 1

\* check mode on an interface that is no switchport: state alone is reported
C20_CheckMode ==
    /\ pc = "done"
    /\ opts.check_mode
    /\ DOMAIN output[1].result[1].changes = {"state"}
    /\ Ops(SetterOps) = {}

\* C21: a result with changes has changed true; once flush is past its
\* branches, a run in which create, remove, a state function or a setter was
\* invoked has changed true, and so has the outcome of the run that exits; an
\* outcome with changed false comes with no such call
C21_ChangedCovers ==
    /\ DOMAIN result.changes /= {} => result.changed = TRUE
    /\ (Finishing /\ Ops(MutationOps) /= {}) => result.changed = TRUE
    /\ pc = "done" =>
        /\ output[1].kind = "exit_json"
        /\ Ops(MutationOps) /= {} => output[1].result[1].changed = TRUE
        /\ output[1].result[1].changed = FALSE =>
            /\ Ops(MutationOps) = {}
            /\ output[1].result[1].changes = EmptyDict

\* a switchport removed on the node: no changes to report, changed reported
C21_Witness ==
    /\ pc = "done"
    /\ ~opts.check_mode
    /\ Ops(MutationOps) = Ops({"remove"})
    /\ \E i \in Ops({"remove"}) : trace[i].remote /\ trace[i].ok
    /\ output[1].result[1].changes = EmptyDict
    /\ output[1].result[1].changed = TRUE

\* a run of main() in check mode
CheckRun == opts.check_mode /\ opts.stateful

\* what create leaves on the node resolves to this instance
CreatedInstance ==
    instance(attributes["name"], CHOOSE r \in Reports(DefaultDevice) : TRUE)

\* the instance the changeset of the same run without check mode is computed
\* against: the one first resolved, or the created one
WouldDiffAgainst ==
    IF FirstInstance["state"] = Str("absent")
    THEN CreatedInstance ELSE FirstInstance

\* the attributes that run sets
WouldSet ==
    IF DesiredState = Str("absent") THEN {}
    ELSE {k \in OptionalKeys :
            attributes[k] /= None /\ attributes[k] /= Get(WouldDiffAgainst, k)}

\* whether that run reports changed
WouldChange ==
    IF DesiredState = Str("absent")
    THEN FirstInstance["state"] = Str("present")
    ELSE FirstInstance["state"] = Str("absent") \/ WouldSet /= {}

\* in check mode no create, remove or setter reaches the node
CheckModeNoRemote ==
    CheckRun =>
        /\ Ops(SetterOps) = {}
        /\ \A i \in Ops(MutationOps) : ~trace[i].remote

\* C22: a run in check mode makes no create, remove or setter call on the
\* node, and its outcome reports changed, and as changes the attributes set,
\* as the same run without check mode does
C22_CheckModeFree ==
    (CheckRun /\ pc = "done") =>
        /\ Ops(SetterOps) = {}
        /\ \A i \in Ops(MutationOps) : ~trace[i].remote
        /\ output[1].result[1].changed = WouldChange
        /\ DOMAIN output[1].result[1].changes \cap OptionalKeys = WouldSet
====
